---- MODULE Spec2Model ----
(***************************************************************************)
(* Model of the answer-grading pipeline of AssignmentGrading:              *)
(* utils.analyze_with_gemini (grade and review mode) and the routes of     *)
(* app.py that call it.                                                    *)
(*                                                                         *)
(* Numbers.  A JSON / Python number is a record [t, v]:                    *)
(*   t = "num"  a finite float, v its value in the unit of its place;      *)
(*   t = "nan"  the float NaN (json.loads accepts the literal NaN and      *)
(*              float() passes it on);                                     *)
(*   t = "text" a non-numeric string such as "abc" (float() raises);       *)
(*   t = "numstr" a numeric string such as "8" (float() converts it).      *)
(* Raw section marks are in whole marks.  Scaled marks, section ceilings   *)
(* and total_marks are in TENTHS of a mark, so that                        *)
(*   marks * (max_marks / 10)  is  raw * max_marks            tenths,      *)
(*   max_marks * 0.4           is  4 * max_marks              tenths,      *)
(*   max_marks                 is  10 * max_marks             tenths.      *)
(* ai_detection_score is in tenths as well (5 stands for 0.5).             *)
(***************************************************************************)
EXTENDS Integers, Sequences, FiniteSets

VARIABLES
    question,           \* the Question row the request is about (app.py:141-149)
    caller,             \* who calls analyze_with_gemini
    api_key,            \* whether GEMINI_API_KEY is set in the environment
    mode,               \* analyze_with_gemini's mode argument
    max_marks,          \* analyze_with_gemini's max_marks argument
    diagrams_required,  \* analyze_with_gemini's diagrams_required argument
    pc,                 \* position in analyze_with_gemini
    retry_count,        \* utils.py:118
    calls,              \* number of model.generate_content calls issued so far
    response,           \* what the last model.generate_content call produced
    result,             \* utils.py:119, the parsed (and repaired) rubric
    returned,           \* the value analyze_with_gemini returned
    handler,            \* position of the route handler that serves the request
    answer,             \* request.form['answer'] (app.py:250), submission.answer
    submissions,        \* the rows of the submission table committed so far
    upload,             \* the file part of an /extract request
    filepath,           \* whose upload is at UPLOAD_FOLDER/<filename> (app.py:209)
    access,             \* what get_or_404 and the authorisation guard find
    commit,             \* how db.session.commit() of app.py:311 ended
    other_pc            \* another /extract request with the same file name

vars == <<question, caller, api_key, mode, max_marks, diagrams_required, pc, retry_count,
          calls, response, result, returned, handler, answer, submissions, upload,
          filepath, access, commit, other_pc>>

\* what analyze_with_gemini leaves alone
appVars == <<handler, answer, submissions, upload, filepath, access, commit, other_pc>>

\* os.path.exists(filepath), app.py:233
file_exists == filepath # "none"

(***************************************************************************)
(* Bounds of the model.                                                    *)
(***************************************************************************)
\* a raw mark above the 0..10 scale
OverRaw == 15
\* magnitude of a raw mark below the 0..10 scale (the mark is -UnderRaw)
UnderRaw == 5

\* utils.py:117
max_retries == 3

(***************************************************************************)
(* Values.                                                                 *)
(***************************************************************************)
Num(n) == [t |-> "num", v |-> n]
NaN == [t |-> "nan", v |-> 0]
Text == [t |-> "text", v |-> 0]
NumStr(n) == [t |-> "numstr", v |-> n]

\* float(x), utils.py:166/181/205: ok = FALSE stands for ValueError/TypeError
ToFloat(x) ==
    CASE x.t = "num" -> [ok |-> TRUE, val |-> x]
      [] x.t = "nan" -> [ok |-> TRUE, val |-> x]
      [] x.t = "numstr" -> [ok |-> TRUE, val |-> Num(x.v)]
      [] OTHER -> [ok |-> FALSE, val |-> Num(0)]

\* a < b on floats: every comparison with NaN is False
Lt(a, b) == a.t = "num" /\ b.t = "num" /\ a.v < b.v
\* a <= b on floats
Le(a, b) == a.t = "num" /\ b.t = "num" /\ a.v <= b.v
\* a > b on floats
Gt(a, b) == Lt(b, a)
\* Python's min(a, b): b if b < a else a
PyMin(a, b) == IF Lt(b, a) THEN b ELSE a
\* a + b on floats
Add(a, b) == IF a.t = "nan" \/ b.t = "nan" THEN NaN ELSE Num(a.v + b.v)
\* a * k for a finite positive factor k
Times(a, k) == IF a.t = "nan" THEN NaN ELSE Num(a.v * k)

(***************************************************************************)
(* Rubric sections.                                                        *)
(***************************************************************************)
BaseSections == <<"introduction", "main_body", "conclusion">>
BonusSections == <<"examples", "diagrams">>
required_fields == BaseSections \o BonusSections
Sections == {required_fields[i] : i \in 1..Len(required_fields)}

\* a feedback value of the parsed JSON: a string, or null
FbStr(s) == [t |-> "str", s |-> s]
FbNull == [t |-> "null", s |-> ""]

\* a section value of the parsed JSON: shape "absent" (key missing),
\* "notdict" (present, not an object) or "dict"
Sec(m, f) == [shape |-> "dict", hasMarks |-> TRUE, hasFeedback |-> TRUE,
              marks |-> m, feedback |-> f]
AbsentSec == [shape |-> "absent", hasMarks |-> FALSE, hasFeedback |-> FALSE,
              marks |-> Num(0), feedback |-> FbStr("")]
NotDictSec == [shape |-> "notdict", hasMarks |-> FALSE, hasFeedback |-> FALSE,
               marks |-> Num(0), feedback |-> FbStr("")]
NoMarksSec(f) == [shape |-> "dict", hasMarks |-> FALSE, hasFeedback |-> TRUE,
                  marks |-> Num(0), feedback |-> f]
NoFeedbackSec(m) == [shape |-> "dict", hasMarks |-> TRUE, hasFeedback |-> FALSE,
                     marks |-> m, feedback |-> FbStr("")]
\* utils.py:148/150
DefaultSec == Sec(Num(0), FbStr("No feedback available"))

\* ai_detection_score of the parsed JSON
AbsentAi == [t |-> "absent", v |-> 0]
\* str(x), utils.py:170/186
PyStr(f) == IF f.t = "null" THEN "None" ELSE f.s

\* a scaled section of the result
Scaled(m, f) == [marks |-> m, feedback |-> f]

(***************************************************************************)
(* Rubric Scaler, utils.py:162-205.                                        *)
(***************************************************************************)
\* utils.py:167, in tenths: max_marks * (0.4 | 0.2)
SectionMax(section, mm) ==
    Num(mm * (IF section \in {"introduction", "main_body"} THEN 4 ELSE 2))

\* BonusMax with the diagrams_required flag ignored
BonusMax_NoFlag(section, mm, dr) == Num(mm * 1)

\* utils.py:183, in tenths: max_marks * (0.2 | 0.1)
BonusMax(section, mm, dr) ==
    Num(mm * (IF section = "diagrams" /\ dr THEN 2 ELSE 1))

\* ScaleBase with the section ceiling left out
ScaleBase_NoCeiling(raw, section, mm) ==
    LET marks == ToFloat(raw.marks) IN
    IF marks.ok
    THEN Scaled(Times(marks.val, mm), PyStr(raw.feedback))
    ELSE Scaled(Num(0), "Error calculating marks")

\* utils.py:165-176, one iteration of the base loop
ScaleBase(raw, section, mm) ==
    LET marks == ToFloat(raw.marks) IN
    IF marks.ok
    THEN Scaled(PyMin(Times(marks.val, mm), SectionMax(section, mm)),
                PyStr(raw.feedback))
    ELSE Scaled(Num(0), "Error calculating marks")

\* ScaleBonus with the gate marks >= 0 in place of marks > 0
ScaleBonus_GateAtZero(raw, section, mm, dr) ==
    LET marks == ToFloat(raw.marks) IN
    IF marks.ok
    THEN IF ~Lt(marks.val, Num(0))
         THEN Scaled(PyMin(Times(marks.val, mm), BonusMax(section, mm, dr)),
                     PyStr(raw.feedback))
         ELSE Scaled(Num(0), "No " \o section \o " provided")
    ELSE Scaled(Num(0), "Error calculating marks")

\* utils.py:180-197, one iteration of the bonus loop
ScaleBonus(raw, section, mm, dr) ==
    LET marks == ToFloat(raw.marks) IN
    IF marks.ok
    THEN IF Gt(marks.val, Num(0))
         THEN Scaled(PyMin(Times(marks.val, mm), BonusMax(section, mm, dr)),
                     PyStr(raw.feedback))
         ELSE Scaled(Num(0), "No " \o section \o " provided")
    ELSE Scaled(Num(0), "Error calculating marks")

\* utils.py:163-197, scaled_result before the totals
ScaleSections(rubric, mm, dr) ==
    [s \in Sections |->
        IF s \in {"examples", "diagrams"}
        THEN ScaleBonus(rubric.sec[s], s, mm, dr)
        ELSE ScaleBase(rubric.sec[s], s, mm)]

\* sum(...) over a sequence of section names, utils.py:200-201
RECURSIVE SumMarks(_, _, _)
SumMarks(scaled, names, i) ==
    IF i > Len(names) THEN Num(0)
    ELSE Add(scaled[names[i]].marks, SumMarks(scaled, names, i + 1))

\* utils.py:200-202, in tenths
TotalMarks(scaled, mm) ==
    LET base_marks == SumMarks(scaled, BaseSections, 1)
        bonus_marks == SumMarks(scaled, BonusSections, 1)
    IN PyMin(Add(base_marks, bonus_marks), Num(10 * mm))

\* result.get('ai_detection_score', 0), utils.py:205
AiOf(rubric) == IF rubric.ai.t = "absent" THEN Num(0) ELSE rubric.ai

(***************************************************************************)
(* Response Normalizer, utils.py:126-153.                                  *)
(* A response text is a sequence of tokens: "{" and "}" are the braces the *)
(* code searches for, " " is whitespace, "x" is any other prose character  *)
(* and "obj" stands for the inside of a well-formed JSON object, whose     *)
(* content is the response's obj field.                                    *)
(***************************************************************************)
Rubric(sec, ai) == [isNone |-> FALSE, sec |-> sec, ai |-> ai]
\* result = None, utils.py:119
NoneRubric == [isNone |-> TRUE, sec |-> [s \in Sections |-> AbsentSec],
               ai |-> AbsentAi]

\* str.strip(), utils.py:130
RECURSIVE LStrip(_)
LStrip(text) ==
    IF text # <<>> /\ Head(text) = " " THEN LStrip(Tail(text)) ELSE text
RECURSIVE RStrip(_)
RStrip(text) ==
    IF text # <<>> /\ text[Len(text)] = " "
    THEN RStrip(SubSeq(text, 1, Len(text) - 1)) ELSE text
Strip(text) == RStrip(LStrip(text))

\* str.find(tok): 0-based index of the first occurrence, -1 if none
Find(text, tok) ==
    LET hits == {i \in 1..Len(text) : text[i] = tok} IN
    IF hits = {} THEN -1
    ELSE (CHOOSE i \in hits : \A j \in hits : i <= j) - 1

\* str.rfind(tok): 0-based index of the last occurrence, -1 if none
RFind(text, tok) ==
    LET hits == {i \in 1..Len(text) : text[i] = tok} IN
    IF hits = {} THEN -1
    ELSE (CHOOSE i \in hits : \A j \in hits : i >= j) - 1

\* text[start:end] with 0-based start and exclusive end, utils.py:137
Slice(text, start, end) == SubSeq(text, start + 1, end)

\* json.loads(json_str), utils.py:141: only a complete object parses
JsonLoads(json_str, obj) ==
    IF json_str = <<"{", "obj", "}">>
    THEN [ok |-> TRUE, value |-> obj]
    ELSE [ok |-> FALSE, value |-> NoneRubric]

\* utils.py:144-150 from required_fields[i] on: the rubric with the fields
\* repaired so far, and whether every field was present
RECURSIVE ValidateFrom(_, _)
\* ValidateFrom with a section in need of repair treated like a missing one
ValidateFrom_NoRepair(rubric, i) ==
    IF i > Len(required_fields) THEN [ok |-> TRUE, rubric |-> rubric]
    ELSE LET value == rubric.sec[required_fields[i]]
         IN IF value.shape # "dict" \/ ~value.hasMarks \/ ~value.hasFeedback
            THEN [ok |-> FALSE, rubric |-> rubric]
            ELSE ValidateFrom(rubric, i + 1)

ValidateFrom(rubric, i) ==
    IF i > Len(required_fields) THEN [ok |-> TRUE, rubric |-> rubric]
    ELSE LET field == required_fields[i]
             value == rubric.sec[field]
             repaired == [rubric EXCEPT !.sec[field] = DefaultSec]
         IN IF value.shape = "absent"
            THEN [ok |-> FALSE, rubric |-> rubric]
            ELSE IF value.shape # "dict"
            THEN ValidateFrom(repaired, i + 1)
            ELSE IF ~value.hasMarks \/ ~value.hasFeedback
            THEN ValidateFrom(repaired, i + 1)
            ELSE ValidateFrom(rubric, i + 1)

\* utils.py:152-153
DefaultAi(rubric) ==
    IF rubric.ai.t = "absent" THEN [rubric EXCEPT !.ai = Num(0)] ELSE rubric

\* the body of the try block of one attempt, utils.py:123-155, given what
\* generate_content produced and the value result held before: whether the
\* attempt reached the break, the value of result afterwards, and the error
Outcome(ok, rubric, error) == [ok |-> ok, result |-> rubric, error |-> error]
AttemptOutcome(resp, old) ==
    IF resp.raises THEN Outcome(FALSE, old, "generate_content raised")
    ELSE IF resp.text = <<>>
    THEN Outcome(FALSE, old, "Empty response from Gemini API")
    ELSE LET text == Strip(resp.text)
             start_idx == Find(text, "{")
             end_idx == RFind(text, "}") + 1
         IN IF start_idx = -1 \/ end_idx <= start_idx
            THEN Outcome(FALSE, old, "No valid JSON found in response")
            ELSE LET parsed == JsonLoads(Slice(text, start_idx, end_idx), resp.obj)
                     checked == ValidateFrom(parsed.value, 1)
                 IN IF ~parsed.ok
                    THEN Outcome(FALSE, old, "json.loads raised")
                    ELSE IF ~checked.ok
                    THEN Outcome(FALSE, checked.rubric, "Missing required field")
                    ELSE Outcome(TRUE, DefaultAi(checked.rubric), "")

(***************************************************************************)
(* Inputs.                                                                 *)
(***************************************************************************)
\* max_marks of a question, app.py:144
MarksChoices == {5, 10, 20}
Questions ==
    {[max_marks |-> 10, requires_examples |-> FALSE, requires_diagrams |-> FALSE],
     [max_marks |-> 20, requires_examples |-> TRUE, requires_diagrams |-> TRUE],
     [max_marks |-> 5, requires_examples |-> FALSE, requires_diagrams |-> TRUE]}

\* raw marks the model may report for a section
RawNumbers == {-UnderRaw, 0, 1, 10, OverRaw}
RawMarks == {Num(n) : n \in RawNumbers} \cup {NaN, Text}
AiValues == {AbsentAi, Num(5), Text}

\* a section as the prompt asks for it
GoodSec == Sec(Num(10), FbStr("Good"))
\* the other section values of the grading flow
DefectSecs ==
    {AbsentSec, NotDictSec, NoMarksSec(FbStr("Good")), NoFeedbackSec(Num(10)),
     Sec(Text, FbStr("Good")), Sec(NumStr(8), FbNull), Sec(Num(1), FbStr("")),
     Sec(Num(-UnderRaw), FbStr("Good")), Sec(Num(0), FbStr("Good"))}
SectionValues == {GoodSec} \cup DefectSecs

\* the sections of the JSON objects of the grading flow: every section as
\* asked for, one section deviating, or a first section in need of repair
\* followed by a later one that is missing or in need of repair too
AllGood == [s \in Sections |-> GoodSec]
FlowSections ==
    {AllGood}
    \cup {[AllGood EXCEPT ![s] = v] : s \in Sections, v \in DefectSecs}
    \cup {[AllGood EXCEPT !["introduction"] = v, ![s] = w] :
             v \in {NotDictSec, NoMarksSec(FbStr("Good"))},
             s \in {"main_body", "diagrams"},
             w \in {AbsentSec, NoFeedbackSec(Num(10))}}
FlowObjects == {Rubric(sec, ai) : sec \in FlowSections, ai \in AiValues}

\* validated rubrics with every section well-formed, for the scaler
ScalerFeedback == {FbStr("Good"), FbNull}
ScalerRubrics ==
    {Rubric([s \in Sections |-> Sec(m[s], fb)], Num(5)) :
        m \in [Sections -> RawMarks], fb \in ScalerFeedback}

Resp(raises, text, obj) == [raises |-> raises, text |-> text, obj |-> obj]
NoResponse == Resp(FALSE, <<>>, NoneRubric)
\* response texts that hold one JSON object, bare or wrapped in prose
ObjTexts == {<<"{", "obj", "}">>, <<" ", "x", "{", "obj", "}", "x", " ">>}
\* response texts that hold none
PlainTexts ==
    {<<>>, <<" ">>, <<"x", " ", "x">>, <<"}", "x", "{">>, <<"{", "obj">>,
     <<"{", "x", "}">>, <<"{", "obj", "}", "x", "}">>}
GradeResponses ==
    {Resp(TRUE, <<>>, NoneRubric)}
    \cup {Resp(FALSE, t, NoneRubric) : t \in PlainTexts}
    \cup {Resp(FALSE, t, o) : t \in ObjTexts, o \in FlowObjects}
ReviewResponses ==
    {Resp(TRUE, <<>>, NoneRubric)}
    \cup {Resp(FALSE, t, NoneRubric) : t \in PlainTexts}

(***************************************************************************)
(* What analyze_with_gemini hands back.                                    *)
(***************************************************************************)
NoGrade == [sec |-> [s \in Sections |-> Scaled(Num(0), "")],
            total_marks |-> Num(0), ai_detection_score |-> Num(0)]
Ret(kind, grade, text, error) ==
    [kind |-> kind, grade |-> grade, text |-> text, error |-> error]
NoReturn == Ret("none", NoGrade, <<>>, "")
Raise(error) == Ret("error", NoGrade, <<>>, error)
ReturnGrade(grade) == Ret("grade", grade, <<>>, "")
ReturnText(text) == Ret("text", NoGrade, text, "")

\* utils.py:163-205: the scaled_result that grade mode returns
ScaledResult(rubric, mm, dr) ==
    LET scaled == ScaleSections(rubric, mm, dr) IN
    [sec |-> scaled,
     total_marks |-> TotalMarks(scaled, mm),
     ai_detection_score |-> ToFloat(AiOf(rubric)).val]

\* the file part of an /extract request: absent, or a file with its name
\* ("" for an empty name, else the kind its extension gives), whether
\* file.save succeeds and whether Image.open (utils.py:33) accepts it
Upload(present, name, saves, opens) ==
    [present |-> present, name |-> name, saves |-> saves, opens |-> opens]
NoUpload == Upload(FALSE, "", FALSE, FALSE)
\* file names by what allowed_file (app.py:59-60) and the .pdf test
\* (app.py:214) make of them: "" is the empty name, "other" a name whose
\* extension is not in ALLOWED_EXTENSIONS
FileNames == {"", "other", "pdf", "image"}
Uploads ==
    {NoUpload}
    \cup {Upload(TRUE, n, sv, TRUE) : n \in FileNames, sv \in BOOLEAN}
    \cup {Upload(TRUE, "image", sv, FALSE) : sv \in BOOLEAN}
\* a request that names no question
NoQuestion == [max_marks |-> 0, requires_examples |-> FALSE, requires_diagrams |-> FALSE]

\* what the vision model may answer to extract_text_from_image
ExtractTexts == {<<>>, <<" ">>, <<"x">>, <<" ", "x", " ", " ", "x", " ">>}
ExtractResponses ==
    {Resp(TRUE, <<>>, NoneRubric)} \cup {Resp(FALSE, t, NoneRubric) : t \in ExtractTexts}

(***************************************************************************)
(* The routes that call analyze_with_gemini.                               *)
(***************************************************************************)
Init ==
    /\ caller \in {"submit_answer", "review", "extract_text"}
    /\ question \in (IF caller = "extract_text" THEN {NoQuestion} ELSE Questions)
    /\ api_key \in BOOLEAN
    /\ mode = "none"
    /\ max_marks = 0
    /\ diagrams_required = FALSE
    /\ pc = "route"
    /\ retry_count = 0
    /\ calls = 0
    /\ response = NoResponse
    /\ result = NoneRubric
    /\ returned = NoReturn
    /\ handler = "start"
    /\ answer \in (CASE caller = "submit_answer" -> {"", "An answer"}
                    [] caller = "review" -> {"An answer"}
                    [] OTHER -> {""})
    /\ submissions = <<>>
    /\ upload \in (IF caller = "extract_text" THEN Uploads ELSE {NoUpload})
    /\ filepath = "none"
    /\ access \in (CASE caller = "submit_answer" -> {"ok", "not_found"}
                    [] caller = "review" -> {"ok", "not_found", "not_authorized"}
                    [] OTHER -> {"ok"})
    /\ commit = "none"
    /\ other_pc = "idle"

\* app.py:249-272 and 326-330: get_or_404 (its NotFound ends in the outer
\* except), the answer and key checks, then
\* analyze_with_gemini(question.question_text, answer, question.max_marks)
submit_answer ==
    /\ pc = "route"
    /\ caller = "submit_answer"
    /\ IF access = "ok" /\ answer # "" /\ api_key
       THEN /\ pc' = "enter"
            /\ handler' = "called"
            /\ mode' = "grade"
            /\ max_marks' = question.max_marks
            /\ diagrams_required' = FALSE
       ELSE /\ pc' = "redirect"
            /\ handler' = IF access # "ok" THEN "grading_failed"
                           ELSE IF answer = "" THEN "no_answer" ELSE "no_key"
            /\ UNCHANGED <<mode, max_marks, diagrams_required>>
    /\ UNCHANGED <<question, caller, api_key, retry_count, calls, response,
                   result, returned, answer, submissions, upload, filepath,
                   access, commit, other_pc>>

\* app.py:334-352: get_or_404 (its NotFound ends in the except), the
\* authorisation guard, then
\* analyze_with_gemini(..., question.max_marks, mode='review')
review ==
    /\ pc = "route"
    /\ caller = "review"
    /\ IF access = "ok"
       THEN /\ pc' = "enter"
            /\ handler' = "called"
            /\ mode' = "review"
            /\ max_marks' = question.max_marks
            /\ diagrams_required' = FALSE
       ELSE /\ pc' = "redirect"
            /\ handler' = IF access = "not_found" THEN "review_failed"
                           ELSE "not_authorized"
            /\ UNCHANGED <<mode, max_marks, diagrams_required>>
    /\ UNCHANGED <<question, caller, api_key, retry_count, calls, response,
                   result, returned, answer, submissions, upload, filepath,
                   access, commit, other_pc>>

(***************************************************************************)
(* analyze_with_gemini, utils.py:62-223.                                   *)
(***************************************************************************)
\* utils.py:64-72 and 117-119: the key check and the dispatch on mode
analyze_with_gemini ==
    /\ pc = "enter"
    /\ IF ~api_key
       THEN /\ pc' = "raised"
            /\ returned' = Raise("Gemini API key not found")
       ELSE /\ pc' = IF mode = "grade" THEN "loop" ELSE "review"
            /\ returned' = returned
    /\ retry_count' = 0
    /\ result' = NoneRubric
    /\ UNCHANGED <<question, caller, api_key, mode, max_marks,
                   diagrams_required, calls, response>>
    /\ UNCHANGED appVars

\* AttemptWith giving up one failure late (> in place of >=)
AttemptWith_LateGiveUp(resp) ==
    LET out == AttemptOutcome(resp, result) IN
    /\ calls' = calls + 1
    /\ response' = resp
    /\ result' = out.result
    /\ IF out.ok
       THEN /\ pc' = "scale"
            /\ retry_count' = retry_count
            /\ returned' = returned
       ELSE /\ retry_count' = retry_count + 1
            /\ IF retry_count + 1 > max_retries
               THEN /\ pc' = "raised"
                    /\ returned' = Raise("Failed to get valid response")
               ELSE /\ pc' = "loop"
                    /\ returned' = returned

\* AttemptWith where the last failure leaves the loop for the scaling step
AttemptWith_FallThrough(resp) ==
    LET out == AttemptOutcome(resp, result) IN
    /\ calls' = calls + 1
    /\ response' = resp
    /\ result' = out.result
    /\ returned' = returned
    /\ IF out.ok
       THEN /\ pc' = "scale"
            /\ retry_count' = retry_count
       ELSE /\ retry_count' = retry_count + 1
            /\ pc' = IF retry_count + 1 >= max_retries THEN "scale" ELSE "loop"

\* utils.py:121-160: one iteration of the retry loop with the response resp
AttemptWith(resp) ==
    LET out == AttemptOutcome(resp, result) IN
    /\ calls' = calls + 1
    /\ response' = resp
    /\ result' = out.result
    /\ IF out.ok
       THEN /\ pc' = "scale"
            /\ retry_count' = retry_count
            /\ returned' = returned
       ELSE /\ retry_count' = retry_count + 1
            /\ IF retry_count + 1 >= max_retries
               THEN /\ pc' = "raised"
                    /\ returned' = Raise("Failed to get valid response")
               ELSE /\ pc' = "loop"
                    /\ returned' = returned

Attempt ==
    /\ pc = "loop"
    /\ retry_count < max_retries
    /\ \E resp \in GradeResponses : AttemptWith(resp)
    /\ UNCHANGED <<question, caller, api_key, mode, max_marks, diagrams_required>>
    /\ UNCHANGED appVars

\* Scale with a failing float(ai_detection_score) replaced by 0.0
Scale_ScoreDefaulted ==
    /\ pc = "scale"
    /\ pc' = "returned"
    /\ returned' = ReturnGrade(ScaledResult(result, max_marks, diagrams_required))
    /\ UNCHANGED <<question, caller, api_key, mode, max_marks, diagrams_required,
                   retry_count, calls, response, result>>
    /\ UNCHANGED appVars

\* utils.py:162-209: scale the validated rubric and return, or raise when
\* float(ai_detection_score) does
Scale ==
    /\ pc = "scale"
    /\ IF ToFloat(AiOf(result)).ok
       THEN /\ pc' = "returned"
            /\ returned' = ReturnGrade(ScaledResult(result, max_marks, diagrams_required))
       ELSE /\ pc' = "raised"
            /\ returned' = Raise("float(ai_detection_score) raised")
    /\ UNCHANGED <<question, caller, api_key, mode, max_marks, diagrams_required,
                   retry_count, calls, response, result>>
    /\ UNCHANGED appVars

\* ReviewWith returning the stripped text
ReviewWith_Stripped(resp) ==
    /\ calls' = calls + 1
    /\ response' = resp
    /\ IF resp.raises
       THEN /\ pc' = "raised"
            /\ returned' = Raise("generate_content raised")
       ELSE /\ pc' = "returned"
            /\ returned' = ReturnText(IF Strip(resp.text) # <<>> THEN Strip(resp.text)
                                      ELSE <<"No feedback available">>)

\* utils.py:218-219 with the response resp
ReviewWith(resp) ==
    /\ calls' = calls + 1
    /\ response' = resp
    /\ IF resp.raises
       THEN /\ pc' = "raised"
            /\ returned' = Raise("generate_content raised")
       ELSE /\ pc' = "returned"
            /\ returned' = ReturnText(IF resp.text # <<>> THEN resp.text
                                      ELSE <<"No feedback available">>)

ReviewCall ==
    /\ pc = "review"
    /\ \E resp \in ReviewResponses : ReviewWith(resp)
    /\ UNCHANGED <<question, caller, api_key, mode, max_marks, diagrams_required,
                   retry_count, result>>
    /\ UNCHANGED appVars

(***************************************************************************)
(* submit_answer after analyze_with_gemini has come back, app.py:275-324.  *)
(***************************************************************************)
\* a column that the constructor call does not assign
Null == [t |-> "null", v |-> 0]

\* app.py:275-280: the result is a dict that holds every required field
CompleteResult(ret) == ret.kind = "grade"

\* app.py:294-309: the row that Submission(...) builds from the grading
\* result; float() of a float and str() of a str give the value back, and
\* ai_detection_score (models.py:53) is not among the keyword arguments
Submission(ans, grade) ==
    [answer |-> ans,
     marks |-> [s \in Sections |-> ToFloat(grade.sec[s].marks).val],
     feedback |-> [s \in Sections |-> grade.sec[s].feedback],
     total_marks |-> ToFloat(grade.total_marks).val,
     ai_detection_score |-> Null]

\* how the try block of app.py:293-318 may end: Submission(...) raises,
\* commit raises, a statement after the commit raises (submission.id at
\* 312 and 317, render_template at 315-318), or none does
SaveOutcomes == {"constructor_raises", "commit_raises", "response_raises", "ok"}

\* SaveWith with the row left in the table when commit raises
SaveWith_NoRollback(outcome) ==
    IF ~CompleteResult(returned)
    THEN /\ handler' = "grading_failed"
         /\ submissions' = submissions
         /\ commit' = commit
    ELSE IF outcome = "constructor_raises"
    THEN /\ handler' = "save_failed"
         /\ submissions' = submissions
         /\ commit' = commit
    ELSE /\ submissions' = Append(submissions, Submission(answer, returned.grade))
         /\ commit' = IF outcome = "commit_raises" THEN "raised" ELSE "ok"
         /\ handler' = IF outcome = "ok" THEN "saved" ELSE "save_failed"

\* app.py:275-324: the field check, then Submission(...), session.add,
\* commit and the response; an exception anywhere in the try block ends in
\* session.rollback() and the "Error saving submission" redirect, which
\* undoes nothing once the commit has succeeded
SaveWith(outcome) ==
    IF ~CompleteResult(returned)
    THEN /\ handler' = "grading_failed"
         /\ submissions' = submissions
         /\ commit' = commit
    ELSE CASE outcome = "constructor_raises" ->
                /\ handler' = "save_failed"
                /\ submissions' = submissions
                /\ commit' = commit
           [] outcome = "commit_raises" ->
                /\ handler' = "save_failed"
                /\ submissions' = submissions
                /\ commit' = "raised"
           [] outcome = "response_raises" ->
                /\ handler' = "save_failed"
                /\ submissions' = Append(submissions, Submission(answer, returned.grade))
                /\ commit' = "ok"
           [] OTHER ->
                /\ handler' = "saved"
                /\ submissions' = Append(submissions, Submission(answer, returned.grade))
                /\ commit' = "ok"

\* app.py:273-324, analyze_with_gemini returned
submit_answer_save ==
    /\ caller = "submit_answer"
    /\ handler = "called"
    /\ pc = "returned"
    /\ \E outcome \in SaveOutcomes : SaveWith(outcome)
    /\ UNCHANGED <<question, caller, api_key, mode, max_marks, diagrams_required,
                   pc, retry_count, calls, response, result, returned, answer,
                   upload, filepath, access, other_pc>>

\* app.py:287-290, analyze_with_gemini raised
submit_answer_except ==
    /\ caller = "submit_answer"
    /\ handler = "called"
    /\ pc = "raised"
    /\ handler' = "grading_failed"
    /\ UNCHANGED <<question, caller, api_key, mode, max_marks, diagrams_required,
                   pc, retry_count, calls, response, result, returned, answer,
                   submissions, upload, filepath, access, commit, other_pc>>

\* app.py:348-352: review renders the text; when analyze_with_gemini raised
\* or render_template does, the except flashes the error and redirects
review_respond ==
    /\ caller = "review"
    /\ handler = "called"
    /\ pc \in {"returned", "raised"}
    /\ \E renders \in BOOLEAN :
          handler' = IF pc = "returned" /\ renders THEN "reviewed" ELSE "review_failed"
    /\ UNCHANGED <<question, caller, api_key, mode, max_marks, diagrams_required,
                   pc, retry_count, calls, response, result, returned, answer,
                   submissions, upload, filepath, access, commit, other_pc>>

(***************************************************************************)
(* The /extract route, app.py:194-242, with the extractors of utils.py.    *)
(***************************************************************************)
\* re.sub(r'\s+', ' ', text), utils.py:15: every run of spaces becomes one
RECURSIVE Collapse(_)
Collapse(text) ==
    IF Len(text) < 2 THEN text
    ELSE IF text[1] = " " /\ text[2] = " " THEN Collapse(Tail(text))
    ELSE <<text[1]>> \o Collapse(Tail(text))

\* utils.py:11-18
clean_text(text) == Strip(Collapse(text))

\* what an extractor gives back: a text, or ok = FALSE for an exception
Extracted(ok, text) == [ok |-> ok, text |-> text]

\* utils.py:23-52; opens tells whether Image.open(image_path) succeeds
extract_text_from_image(resp, key, opens) ==
    IF ~key \/ ~opens \/ resp.raises \/ resp.text = <<>> THEN Extracted(FALSE, <<>>)
    ELSE LET cleaned_text == clean_text(resp.text)
         IN IF cleaned_text = <<>> THEN Extracted(FALSE, <<>>)
            ELSE Extracted(TRUE, cleaned_text)

\* utils.py:54-60
extract_text_from_pdf == Extracted(TRUE, <<"PDF extraction is being updated">>)

\* app.py:196-211 and 237-242: the checks of the request and file.save,
\* which writes over whatever is at filepath; a file.save that raises may
\* leave a partly written file behind
extract_text ==
    /\ pc = "route"
    /\ caller = "extract_text"
    /\ IF ~upload.present \/ upload.name = ""
       THEN /\ handler' = "no_file"
            /\ pc' = "done"
            /\ filepath' = filepath
       ELSE IF upload.name = "other"
       THEN /\ handler' = "invalid_type"
            /\ pc' = "done"
            /\ filepath' = filepath
       ELSE IF upload.saves
       THEN /\ handler' = "uploaded"
            /\ pc' = "extract"
            /\ filepath' = "request"
       ELSE /\ handler' = "server_error"
            /\ pc' = "done"
            /\ filepath' \in {filepath, "request"}
    /\ UNCHANGED <<question, caller, api_key, mode, max_marks, diagrams_required,
                   retry_count, calls, response, result, returned, answer,
                   submissions, upload, access, commit, other_pc>>

\* what Image.open finds at filepath: the request's own upload, the upload
\* of the other request (an image or not), or nothing
OpenOutcomes ==
    CASE filepath = "request" -> {upload.opens}
      [] filepath = "other" -> BOOLEAN
      [] OTHER -> {FALSE}

\* app.py:213-230: the extraction and the response it prepares;
\* generate_content is called when the key is set and the image opened
ExtractWith(resp, opens) ==
    LET pdf == upload.name = "pdf"
        called == ~pdf /\ api_key /\ opens
        text == IF pdf THEN extract_text_from_pdf
                ELSE extract_text_from_image(resp, api_key, opens)
    IN /\ response' = IF called THEN resp ELSE response
       /\ calls' = IF called THEN calls + 1 ELSE calls
       /\ returned' = IF text.ok /\ text.text # <<>>
                      THEN ReturnText(text.text)
                      ELSE Raise("extraction failed")

extract_text_run ==
    /\ pc = "extract"
    /\ \E resp \in ExtractResponses : \E opens \in OpenOutcomes : ExtractWith(resp, opens)
    /\ pc' = "finally"
    /\ UNCHANGED <<question, caller, api_key, mode, max_marks, diagrams_required,
                   retry_count, result, handler, answer, submissions, upload,
                   filepath, access, commit, other_pc>>

\* the response prepared at app.py:226 or 230
ExtractResponse == IF returned.kind = "text" THEN "extracted" ELSE "extract_failed"

\* extract_text_finally with the clean-up skipped after an exception
extract_text_finally_OnSuccess ==
    /\ pc = "finally"
    /\ IF file_exists /\ returned.kind = "text"
       THEN /\ pc' = "remove"
            /\ handler' = handler
       ELSE /\ pc' = "done"
            /\ handler' = ExtractResponse
    /\ UNCHANGED <<question, caller, api_key, mode, max_marks, diagrams_required,
                   retry_count, calls, response, result, returned, answer,
                   submissions, upload, filepath, access, commit, other_pc>>

\* app.py:231-233: the finally clause tests os.path.exists(filepath)
extract_text_finally ==
    /\ pc = "finally"
    /\ IF file_exists
       THEN /\ pc' = "remove"
            /\ handler' = handler
       ELSE /\ pc' = "done"
            /\ handler' = ExtractResponse
    /\ UNCHANGED <<question, caller, api_key, mode, max_marks, diagrams_required,
                   retry_count, calls, response, result, returned, answer,
                   submissions, upload, filepath, access, commit, other_pc>>

\* app.py:234 and 240-242: os.remove(filepath); when the file has gone
\* since the test it raises out of the finally clause into the outer except
extract_text_remove ==
    /\ pc = "remove"
    /\ pc' = "done"
    /\ IF file_exists
       THEN /\ filepath' = "none"
            /\ handler' = ExtractResponse
       ELSE /\ filepath' = filepath
            /\ handler' = "server_error"
    /\ UNCHANGED <<question, caller, api_key, mode, max_marks, diagrams_required,
                   retry_count, calls, response, result, returned, answer,
                   submissions, upload, access, commit, other_pc>>

\* app.py:211 in another /extract request whose upload has the same name
other_extract_save ==
    /\ caller = "extract_text"
    /\ other_pc = "idle"
    /\ other_pc' = "saved"
    /\ filepath' = "other"
    /\ UNCHANGED <<question, caller, api_key, mode, max_marks, diagrams_required,
                   pc, retry_count, calls, response, result, returned, handler,
                   answer, submissions, upload, access, commit>>

\* app.py:231-235 in that request
other_extract_cleanup ==
    /\ caller = "extract_text"
    /\ other_pc = "saved"
    /\ other_pc' = "done"
    /\ filepath' = "none"
    /\ UNCHANGED <<question, caller, api_key, mode, max_marks, diagrams_required,
                   pc, retry_count, calls, response, result, returned, handler,
                   answer, submissions, upload, access, commit>>

Next ==
    \/ submit_answer \/ review \/ analyze_with_gemini \/ Attempt \/ Scale \/ ReviewCall
    \/ submit_answer_save \/ submit_answer_except \/ review_respond
    \/ extract_text \/ extract_text_run \/ extract_text_finally \/ extract_text_remove
    \/ other_extract_save \/ other_extract_cleanup

Spec == Init /\ [][Next]_vars

(***************************************************************************)
(* The scaler on its own: analyze_with_gemini called in grade mode with    *)
(* any max_marks and diagrams_required, taken up where the retry loop has  *)
(* left with a validated rubric.                                           *)
(***************************************************************************)
ScaleInit ==
    /\ max_marks \in MarksChoices
    /\ diagrams_required \in BOOLEAN
    /\ question = [max_marks |-> max_marks, requires_examples |-> FALSE,
                   requires_diagrams |-> diagrams_required]
    /\ caller = "direct"
    /\ api_key = TRUE
    /\ mode = "grade"
    /\ pc = "scale"
    /\ retry_count = 0
    /\ calls = 1
    /\ result \in ScalerRubrics
    /\ response = Resp(FALSE, <<"{", "obj", "}">>, result)
    /\ returned = NoReturn
    /\ handler = "called"
    /\ answer = "An answer"
    /\ submissions = <<>>
    /\ upload = NoUpload
    /\ filepath = "none"
    /\ access = "ok"
    /\ commit = "none"
    /\ other_pc = "idle"

ScaleSpec == ScaleInit /\ [][Scale]_vars

(***************************************************************************)
(* Properties.  Marks of the returned result are in tenths.                *)
(***************************************************************************)
\* grade mode has returned its scaled_result
Graded == mode = "grade" /\ pc = "returned" /\ returned.kind = "grade"
\* the retry loop has given up, utils.py:160
Exhausted == pc = "raised" /\ returned.error = "Failed to get valid response"
\* the retry loop was left by the break of utils.py:155
Succeeded ==
    \/ pc \in {"scale", "returned"} /\ mode = "grade"
    \/ pc = "raised" /\ returned.error = "float(ai_detection_score) raised"
MinInt(a, b) == IF a < b THEN a ELSE b
Weight(s) == IF s \in {"introduction", "main_body"} THEN 4 ELSE 2
IsBonus(s) == s \in {"examples", "diagrams"}
InScale(m) == m.t = "num" /\ m.v >= 0 /\ m.v <= 10

\* C1: in every grade-mode result total_marks <= max_marks, introduction and
\* main_body <= 0.4 * max_marks, conclusion <= 0.2 * max_marks, and each
\* bonus section <= its ceiling (0.2 * max_marks for diagrams when
\* diagrams_required, else 0.1 * max_marks), whatever the raw marks are.
C1_CapInvariant ==
    Graded =>
        /\ Le(returned.grade.total_marks, Num(10 * max_marks))
        /\ \A s \in Sections :
              Le(returned.grade.sec[s].marks,
                 Num(max_marks * (IF IsBonus(s)
                                  THEN (IF s = "diagrams" /\ diagrams_required
                                        THEN 2 ELSE 1)
                                  ELSE Weight(s))))

\* C2: a raw mark outside [0,10] is clamped to 0 or 10 before scaling, so a
\* base section's scaled mark is the one computed from the clamped value and
\* no scaled mark is negative; a non-numeric raw mark gives 0 with the
\* feedback "Error calculating marks".
C2_ClampInvariant ==
    Graded =>
        \A s \in Sections :
            LET raw == result.sec[s].marks
                out == returned.grade.sec[s]
                clamped == IF raw.v < 0 THEN 0 ELSE IF raw.v > 10 THEN 10 ELSE raw.v
            IN /\ raw.t = "num" => out.marks.t = "num" /\ out.marks.v >= 0
               /\ raw.t = "num" /\ ~IsBonus(s) =>
                     out.marks = Num(MinInt(clamped * max_marks, Weight(s) * max_marks))
               /\ raw.t = "text" => out = Scaled(Num(0), "Error calculating marks")

\* C3: with max_retries = 3, when every attempt fails exactly 3 calls are
\* made and the operation fails; when the first successful attempt is the
\* k-th, exactly k calls are made (k - 1 failures before it, k <= 3); and no
\* call follows a success or the final failure.
C3_Counts ==
    mode = "grade" /\ pc # "enter" =>
        /\ Exhausted => calls = 3 /\ retry_count = 3
        /\ retry_count >= 3 => Exhausted
        /\ Succeeded => calls = retry_count + 1 /\ calls \in 1..3
        /\ pc = "loop" => calls = retry_count /\ retry_count < 3
C3_NoCallAfterEnd == (Succeeded \/ Exhausted) => calls' = calls
C3_RetryTermination == []C3_Counts /\ [][C3_NoCallAfterEnd]_vars
C3_Witness == Exhausted /\ calls = 3 /\ retry_count = 3

\* a response that fails an attempt structurally: the call raised, the text
\* is empty, holds no brace pair or no parseable object, or a section key is
\* missing
Structural(resp) ==
    \/ resp.raises
    \/ resp.text \in PlainTexts
    \/ \E s \in Sections : resp.obj.sec[s].shape = "absent"
\* a section that is present but in need of repair
NeedsRepair(v) ==
    v.shape = "notdict" \/ (v.shape = "dict" /\ (~v.hasMarks \/ ~v.hasFeedback))

\* C4: an attempt whose response fails structurally fails and uses up exactly
\* one retry; an attempt whose response has all five keys succeeds without
\* using one, every section that is not an object or lacks marks or feedback
\* being replaced by {marks: 0, feedback: "No feedback available"} and every
\* other section kept.
C4_AfterAttempt ==
    mode = "grade" /\ calls > 0 =>
        IF Structural(response)
        THEN pc \in {"loop", "raised"} /\ ~Succeeded /\ retry_count = calls
        ELSE /\ Succeeded
             /\ retry_count = calls - 1
             /\ \A s \in Sections :
                   result.sec[s] = IF NeedsRepair(response.obj.sec[s])
                                   THEN Sec(Num(0), FbStr("No feedback available"))
                                   ELSE response.obj.sec[s]
C4_OneRetryPerFailure ==
    calls' = calls + 1 /\ mode = "grade" =>
        retry_count' = retry_count + (IF Structural(response') THEN 1 ELSE 0)
C4_StructuralVsRepair == []C4_AfterAttempt /\ [][C4_OneRetryPerFailure]_vars
C4_Witness ==
    /\ Succeeded
    /\ retry_count = 0
    /\ response.obj.sec["introduction"].shape = "notdict"
    /\ result.sec["introduction"] = DefaultSec

\* C5: when every raw mark is a number in [0,10], each base section's scaled
\* mark is min(raw * max_marks / 10, max_marks * weight) with weight 0.4 for
\* introduction and main_body and 0.2 for conclusion, and total_marks is
\* min(sum of the five scaled marks, max_marks).
C5_ScalingResult ==
    Graded /\ (\A s \in Sections : InScale(result.sec[s].marks)) =>
        LET out == returned.grade IN
        /\ \A s \in Sections \ {"examples", "diagrams"} :
              out.sec[s].marks =
                  Num(MinInt(result.sec[s].marks.v * max_marks, Weight(s) * max_marks))
        /\ out.total_marks =
              Num(MinInt(out.sec["introduction"].marks.v + out.sec["main_body"].marks.v
                         + out.sec["conclusion"].marks.v + out.sec["examples"].marks.v
                         + out.sec["diagrams"].marks.v,
                         10 * max_marks))
C5_Witness ==
    /\ Graded
    /\ max_marks = 10
    /\ \A s \in Sections :
          result.sec[s].marks = IF IsBonus(s) THEN Num(0) ELSE Num(10)
    /\ returned.grade.sec["introduction"].marks = Num(40)
    /\ returned.grade.sec["main_body"].marks = Num(40)
    /\ returned.grade.sec["conclusion"].marks = Num(20)
    /\ returned.grade.sec["examples"].marks = Num(0)
    /\ returned.grade.sec["diagrams"].marks = Num(0)
    /\ returned.grade.total_marks = Num(100)

\* C6: a bonus section whose raw mark is a number <= 0 gets scaled mark 0 and
\* the feedback "No examples provided" / "No diagrams provided", for every
\* max_marks, diagrams_required and feedback of the model.
C6_BonusGate ==
    Graded =>
        /\ (result.sec["examples"].marks.t = "num" /\ result.sec["examples"].marks.v <= 0
               => returned.grade.sec["examples"] = Scaled(Num(0), "No examples provided"))
        /\ (result.sec["diagrams"].marks.t = "num" /\ result.sec["diagrams"].marks.v <= 0
               => returned.grade.sec["diagrams"] = Scaled(Num(0), "No diagrams provided"))
C6_Witness ==
    /\ Graded
    /\ max_marks = 20
    /\ diagrams_required
    /\ result.sec["examples"] = Sec(Num(0), FbStr("Good"))
    /\ result.sec["diagrams"] = Sec(Num(-UnderRaw), FbStr("Good"))
    /\ returned.grade.sec["examples"] = Scaled(Num(0), "No examples provided")
    /\ returned.grade.sec["diagrams"] = Scaled(Num(0), "No diagrams provided")

\* C7: for a raw diagrams mark > 0 the scaled diagrams mark is
\* min(raw * max_marks / 10, 0.2 * max_marks) when diagrams_required and
\* min(raw * max_marks / 10, 0.1 * max_marks) when not.
C7_DiagramsCeiling ==
    Graded /\ result.sec["diagrams"].marks.t = "num"
           /\ result.sec["diagrams"].marks.v > 0 =>
        returned.grade.sec["diagrams"].marks =
            Num(MinInt(result.sec["diagrams"].marks.v * max_marks,
                       (IF diagrams_required THEN 2 ELSE 1) * max_marks))
C7_Witness ==
    /\ Graded
    /\ max_marks = 20
    /\ diagrams_required
    /\ result.sec["diagrams"].marks = Num(10)
    /\ returned.grade.sec["diagrams"].marks = Num(40)

\* C8: graded for a question, a bonus section is capped at 20% of max_marks
\* when the question requires it and at 10% when it does not: with a raw
\* mark of 2 or more the scaled mark reaches 0.2 * max_marks for a question
\* with the flag, and without the flag it never exceeds 0.1 * max_marks.
QuestionRequires(s) ==
    IF s = "examples" THEN question.requires_examples ELSE question.requires_diagrams
C8_QuestionBonusCeiling ==
    Graded /\ caller = "submit_answer" =>
        \A s \in {"examples", "diagrams"} :
            LET raw == result.sec[s].marks
                out == returned.grade.sec[s].marks
            IN IF QuestionRequires(s)
               THEN raw.t = "num" /\ raw.v >= 2 => out = Num(2 * question.max_marks)
               ELSE Le(out, Num(question.max_marks))

\* the last attempt produced a validated rubric whose ai_detection_score
\* float() rejects
BadScore == Succeeded /\ ~result.isNone /\ result.ai.t = "text"

\* C9: a validated rubric whose ai_detection_score cannot be coerced to a
\* float makes grade mode fail without a result and without another call
\* (calls stays at the count the loop was left with); an absent
\* ai_detection_score gives 0.0 in the result.
C9_State ==
    /\ BadScore => /\ pc \in {"scale", "raised"}
                   /\ returned.kind # "grade"
                   /\ calls = retry_count + 1
    /\ Graded /\ response.obj.ai.t = "absent" =>
          returned.grade.ai_detection_score = Num(0)
C9_NoCallAfterBadScore ==
    BadScore => calls' = calls /\ pc' = "raised" /\ returned'.kind = "error"
C9_InvalidScoreFatal == []C9_State /\ [][C9_NoCallAfterBadScore]_vars
C9_Witness ==
    /\ BadScore
    /\ pc = "raised"
    /\ returned.kind = "error"
    /\ calls = 2
    /\ retry_count = 1

\* C10 as claimed: review mode issues exactly one external call; non-empty
\* text is returned unchanged, empty output gives "No feedback available",
\* and a failing call propagates with no second call.
ReviewOutcome ==
    /\ calls = 1
    /\ IF response.raises
       THEN pc = "raised" /\ returned.kind = "error"
       ELSE /\ pc = "returned"
            /\ returned.kind = "text"
            /\ returned.text = IF response.text = <<>>
                               THEN <<"No feedback available">> ELSE response.text
C10_ReviewExactlyOneCall ==
    mode = "review" /\ pc \in {"returned", "raised"} => ReviewOutcome

\* C10 amended: with GEMINI_API_KEY set, review mode issues exactly one
\* external call, returns non-empty text unchanged and "No feedback
\* available" for empty output, and lets a failure of the call propagate
\* with no second call; without the key it raises before any call.
C10_ReviewState ==
    mode = "review" =>
        /\ calls <= 1
        /\ pc \in {"returned", "raised"} =>
              IF api_key THEN ReviewOutcome
              ELSE calls = 0 /\ pc = "raised" /\ returned.kind = "error"
C10_ReviewNoSecondCall == mode = "review" /\ calls >= 1 => calls' = calls
C10_ReviewSinglePass == []C10_ReviewState /\ [][C10_ReviewNoSecondCall]_vars
C10_Witness ==
    /\ mode = "review"
    /\ pc = "returned"
    /\ calls = 1
    /\ response.text = <<"x", " ", "x">>
    /\ returned.text = <<"x", " ", "x">>

(***************************************************************************)
(* C11  No partial persistence.                                            *)
(***************************************************************************)
\* the request is over: the handler has sent its response
Responded == handler \notin {"start", "called", "uploaded"}

\* C11: a submit_answer request commits at most one Submission, and commits
\* it only after grading returned a complete result; when the question, the
\* answer or the key is missing, grading raised (retries exhausted, invalid
\* detection score), the constructor raised or the commit failed, no
\* Submission exists afterwards; a request whose commit succeeded, the one
\* that ends in the grading page included, has committed exactly one.
C11_NoPartialPersistence ==
    caller = "submit_answer" =>
        /\ Len(submissions) <= 1
        /\ (submissions # <<>> =>
               /\ commit = "ok"
               /\ handler \in {"saved", "save_failed"}
               /\ pc = "returned"
               /\ CompleteResult(returned))
        /\ (pc \in {"raised", "redirect"} => submissions = <<>>)
        /\ (handler \in {"no_answer", "no_key", "grading_failed"} => submissions = <<>>)
        /\ (commit # "ok" => submissions = <<>>)
        /\ (commit = "ok" => Len(submissions) = 1)
        /\ (handler = "saved" => commit = "ok" /\ Len(submissions) = 1)

\* grading came back complete, the commit failed, and nothing is stored
C11_Witness ==
    /\ caller = "submit_answer"
    /\ handler = "save_failed"
    /\ commit = "raised"
    /\ Graded
    /\ submissions = <<>>

\* the commit succeeded and a later statement of the try block raised: the
\* row is stored though the request answers "Error saving submission"
C11_StoredThenFailed ==
    /\ caller = "submit_answer"
    /\ handler = "save_failed"
    /\ commit = "ok"
    /\ Len(submissions) = 1

(***************************************************************************)
(* C12  Verbatim persistence.                                              *)
(***************************************************************************)
\* the marks, feedbacks and total of a row are those of the grading result
MarksAndFeedbackOf(row, grade) ==
    /\ \A s \in Sections :
          /\ row.marks[s] = grade.sec[s].marks
          /\ row.feedback[s] = grade.sec[s].feedback
    /\ row.total_marks = grade.total_marks

\* every committed row holds the marks, feedbacks and total that grading
\* returned (the part of C12 that the code keeps)
C12_MarksAndFeedbackVerbatim ==
    \A i \in 1..Len(submissions) : MarksAndFeedbackOf(submissions[i], returned.grade)

\* C12: whenever submit_answer commits a Submission, the row holds every
\* field of the grading result unchanged: the five section marks, the five
\* section feedbacks, total_marks and ai_detection_score.
C12_VerbatimPersistence ==
    \A i \in 1..Len(submissions) :
        /\ MarksAndFeedbackOf(submissions[i], returned.grade)
        /\ submissions[i].ai_detection_score = returned.grade.ai_detection_score

(***************************************************************************)
(* C13  Feedback after normalization.                                      *)
(***************************************************************************)
\* a section whose feedback key is absent from the model output comes back
\* with a placeholder: "No feedback available" for a base section, and for
\* a bonus section (whose marks the repair sets to 0) "No <section> provided"
C13_AbsentFeedbackPlaceholder ==
    Graded =>
        \A s \in Sections :
            LET v == response.obj.sec[s] IN
            v.shape = "dict" /\ ~v.hasFeedback =>
                returned.grade.sec[s].feedback =
                    IF IsBonus(s) THEN "No " \o s \o " provided"
                    ELSE "No feedback available"

\* C13: in every grade-mode result each of the five sections carries a
\* non-empty feedback string, a section whose feedback is absent from the
\* model output getting a placeholder string instead.
C13_FeedbackNonEmpty ==
    Graded =>
        /\ \A s \in Sections : returned.grade.sec[s].feedback # ""
        /\ \A s \in Sections :
              LET v == response.obj.sec[s] IN
              v.shape = "dict" /\ ~v.hasFeedback =>
                  returned.grade.sec[s].feedback \in
                      {"No feedback available", "No " \o s \o " provided"}

(***************************************************************************)
(* C15  Only a fully validated rubric is scaled.                           *)
(***************************************************************************)
\* the rubric a response with all five keys is repaired to
Repaired(obj) ==
    Rubric([s \in Sections |->
               IF NeedsRepair(obj.sec[s]) THEN DefaultSec ELSE obj.sec[s]],
           IF obj.ai.t = "absent" THEN Num(0) ELSE obj.ai)

\* C15: in grade mode the scaling step is reached only when the last
\* attempt passed every validation check, and the rubric it scales and
\* returns is the one parsed and repaired in that attempt; a rubric left in
\* result by an earlier attempt that failed is never scaled or returned, and
\* when all attempts fail nothing is scaled.
C15_State ==
    mode = "grade" =>
        /\ Succeeded =>
              /\ ~Structural(response)
              /\ result = Repaired(response.obj)
        /\ Graded =>
              returned.grade =
                  ScaledResult(Repaired(response.obj), max_marks, diagrams_required)
        /\ ~Succeeded => returned.kind # "grade"
        /\ Exhausted => returned.kind = "error" /\ Structural(response)
C15_ScaleStep ==
    mode = "grade" /\ returned'.kind = "grade" /\ returned.kind # "grade" =>
        /\ pc = "scale"
        /\ ~Structural(response)
        /\ response' = response
        /\ result' = result
C15_OnlyValidatedScaled == []C15_State /\ [][C15_ScaleStep]_vars

\* all attempts failed while result still holds the partly repaired rubric
\* of an attempt that parsed and then missed a key: nothing was returned
C15_Witness ==
    /\ Exhausted
    /\ ~result.isNone
    /\ result.sec["introduction"] = DefaultSec
    /\ returned.kind = "error"

\* a successful attempt after failed ones: the rubric scaled is its own
C15_LateSuccess ==
    /\ Graded
    /\ retry_count = 2
    /\ result = Repaired(response.obj)

(***************************************************************************)
(* C14  Release of the uploaded file.                                      *)
(***************************************************************************)
\* the request's upload passed the checks and file.save returned
Saved == upload.present /\ upload.name \in {"pdf", "image"} /\ upload.saves

\* C14: when an /extract request whose upload was saved completes, the file
\* it saved is no longer in the upload folder, whether the extraction
\* returned text, returned nothing or raised; a file found at that path
\* then is the upload of another request that has not completed yet.
C14_State ==
    caller = "extract_text" =>
        /\ (handler \in {"extracted", "extract_failed"} => Saved /\ pc = "done")
        /\ (pc = "done" /\ Saved => filepath # "request" /\ Responded)
        /\ (pc = "done" /\ Saved /\ file_exists => other_pc = "saved")
        /\ (handler = "uploaded" => Saved /\ pc \in {"extract", "finally", "remove"})
C14_Completion == pc # "done" /\ pc' = "done" /\ Saved => filepath' # "request"
C14_UploadReleased == []C14_State /\ [][C14_Completion]_vars

\* a saved image whose extraction raised: the 500 response, the file gone
C14_Witness ==
    /\ caller = "extract_text"
    /\ upload = Upload(TRUE, "image", TRUE, TRUE)
    /\ handler = "extract_failed"
    /\ returned.kind = "error"
    /\ calls = 1
    /\ other_pc = "idle"
    /\ ~file_exists

\* a saved file whose extraction returned text
C14_Extracted ==
    /\ handler = "extracted"
    /\ returned.text = <<"x", " ", "x">>
    /\ ~file_exists

\* a saved file that is no image: Image.open raises before any call
C14_NotAnImage ==
    /\ upload = Upload(TRUE, "image", TRUE, FALSE)
    /\ api_key
    /\ handler = "extract_failed"
    /\ calls = 0
    /\ ~file_exists

\* the file went between the test and os.remove: the outer except answers
C14_RemoveRaised ==
    /\ Saved
    /\ pc = "done"
    /\ handler = "server_error"
    /\ ~file_exists

====
